---- MODULE Spec2Model ----
(***************************************************************************)
(* A model of the Cronhost API client (src/index.ts): the configuration    *)
(* holder, the request pipeline with its error normalisation, and the      *)
(* resource operations built on it.  Every invocation of a public          *)
(* operation occupies one slot of `ops`; an invocation runs synchronously  *)
(* up to its fetch, is suspended while the transport works, and resumes    *)
(* when the transport resolves, rejects, or delivers the body.             *)
(***************************************************************************)
EXTENDS Integers, Sequences, FiniteSets, TLC

VARIABLES config, baseUrl, ops

vars == <<config, baseUrl, ops>>

\* number of invocations that may be in flight on one client at once
MaxOps == 2

\* the largest array createSchedule accepts
BulkLimit == 1000

(***************************************************************************)
(* JavaScript values.  Every value is a record [t, v]; an object keeps its *)
(* properties as a sequence of <<key, value>> pairs in insertion order.    *)
(***************************************************************************)
Undef == [t |-> "undefined", v |-> 0]
Null == [t |-> "null", v |-> 0]
Str(s) == [t |-> "string", v |-> s]
Num(n) == [t |-> "number", v |-> n]
Bool(b) == [t |-> "boolean", v |-> b]
Obj(pairs) == [t |-> "object", v |-> pairs]
Arr(elems) == [t |-> "array", v |-> elems]
\* new Error(message, { cause })
Err(name, message, cause) ==
  [t |-> "error", v |-> [name |-> name, message |-> message, cause |-> cause]]

\* the truthiness test of `if (x)`, `x ? a : b`, `a || b`, `a && b`
Truthy(x) ==
  CASE x.t \in {"undefined", "null"} -> FALSE
    [] x.t = "string" -> x.v # ""
    [] x.t = "number" -> x.v # 0
    [] x.t = "boolean" -> x.v
    [] OTHER -> TRUE

HasKey(o, k) == o.t = "object" /\ \E i \in 1..Len(o.v) : o.v[i][1] = k

\* o.k where o is neither null nor undefined: a missing property, and any
\* property of a primitive or of an array that the model reads, is undefined
Get(o, k) ==
  IF HasKey(o, k)
    THEN o.v[CHOOSE i \in 1..Len(o.v) : o.v[i][1] = k][2]
    ELSE Undef

\* o?.k
OptGet(o, k) == IF o.t \in {"undefined", "null"} THEN Undef ELSE Get(o, k)

\* a || b
OrElse(a, b) == IF Truthy(a) THEN a ELSE b

(***************************************************************************)
(* Strings.                                                                *)
(***************************************************************************)
StartsWith(s, p) == Len(s) >= Len(p) /\ SubSeq(s, 1, Len(p)) = p

Includes(s, sub) ==
  \E i \in 1..(Len(s) - Len(sub) + 1) : SubSeq(s, i, i + Len(sub) - 1) = sub

DigitChars == <<"0", "1", "2", "3", "4", "5", "6", "7", "8", "9">>

\* Number.prototype.toString and template interpolation of a non-negative integer
RECURSIVE NumToStr(_)
NumToStr(n) ==
  IF n < 10 THEN DigitChars[n + 1]
  ELSE NumToStr(n \div 10) \o DigitChars[(n % 10) + 1]

\* `${x}` for the values the client interpolates
Interpolate(x) ==
  CASE x.t = "string" -> x.v
    [] x.t = "number" -> NumToStr(x.v)
    [] x.t = "undefined" -> "undefined"
    [] x.t = "null" -> "null"
    [] x.t = "boolean" -> (IF x.v THEN "true" ELSE "false")
    [] OTHER -> "[object Object]"

\* the characters JSON.stringify escapes inside a string
EscapeChar(c) ==
  CASE c = "\"" -> "\\\""
    [] c = "\\" -> "\\\\"
    [] OTHER -> c

RECURSIVE EscapeFrom(_, _)
EscapeFrom(s, i) ==
  IF i > Len(s) THEN ""
  ELSE EscapeChar(SubSeq(s, i, i)) \o EscapeFrom(s, i + 1)

Quote(s) == "\"" \o EscapeFrom(s, 1) \o "\""

\* the application/x-www-form-urlencoded byte serializer of URLSearchParams
FormEncodeChar(c) ==
  CASE c = " " -> "+"
    [] c = "&" -> "%26"
    [] c = "=" -> "%3D"
    [] c = "+" -> "%2B"
    [] c = "/" -> "%2F"
    [] c = "?" -> "%3F"
    [] OTHER -> c

RECURSIVE FormEncodeFrom(_, _)
FormEncodeFrom(s, i) ==
  IF i > Len(s) THEN ""
  ELSE FormEncodeChar(SubSeq(s, i, i)) \o FormEncodeFrom(s, i + 1)

FormEncode(s) == FormEncodeFrom(s, 1)

(***************************************************************************)
(* JSON.stringify.                                                         *)
(***************************************************************************)
\* JSON.stringify(x) as text, for a string, a number, a boolean, null, or an
\* object of such values: a property whose value is undefined is left out
RECURSIVE JSONTextPairs(_, _, _)
RECURSIVE JSONText(_)
JSONTextPairs(pairs, i, first) ==
  IF i > Len(pairs) THEN ""
  ELSE IF pairs[i][2].t = "undefined" THEN JSONTextPairs(pairs, i + 1, first)
  ELSE (IF first THEN "" ELSE ",")
         \o Quote(pairs[i][1]) \o ":" \o JSONText(pairs[i][2])
         \o JSONTextPairs(pairs, i + 1, FALSE)

JSONText(x) ==
  CASE x.t = "string" -> Quote(x.v)
    [] x.t = "number" -> NumToStr(x.v)
    [] x.t = "boolean" -> (IF x.v THEN "true" ELSE "false")
    [] x.t = "object" -> "{" \o JSONTextPairs(x.v, 1, TRUE) \o "}"
    [] OTHER -> "null"

\* the document JSON.stringify(x) writes: an object without the properties
\* whose value is undefined, an array with null for undefined elements
RECURSIVE JSONDoc(_)
JSONDoc(x) ==
  CASE x.t = "object" ->
         Obj([i \in 1..Len(SelectSeq(x.v, LAMBDA p : p[2].t # "undefined")) |->
                LET p == SelectSeq(x.v, LAMBDA q : q[2].t # "undefined")[i]
                IN  <<p[1], JSONDoc(p[2])>>])
    [] x.t = "array" ->
         Arr([i \in 1..Len(x.v) |->
                IF x.v[i].t = "undefined" THEN Null ELSE JSONDoc(x.v[i])])
    [] OTHER -> x

\* a request body: the JSON text of x, kept as the document it denotes
JSONStringify(x) == [t |-> "json", v |-> JSONDoc(x)]

(***************************************************************************)
(* Object spread.                                                          *)
(***************************************************************************)
\* the own enumerable properties `...x` copies: those of an object, the
\* indices of an array, none of a primitive, null or undefined
SpreadPairs(x) ==
  CASE x.t = "object" -> x.v
    [] x.t = "array" -> [i \in 1..Len(x.v) |-> <<NumToStr(i - 1), x.v[i]>>]
    [] OTHER -> <<>>

\* { ...pairs, k: val }: k keeps its place when pairs has it, else it is last
WithKey(pairs, k, val) ==
  IF \E i \in 1..Len(pairs) : pairs[i][1] = k
    THEN [i \in 1..Len(pairs) |-> IF pairs[i][1] = k THEN <<k, val>> ELSE pairs[i]]
    ELSE Append(pairs, <<k, val>>)

\* { ...a, ...b }
RECURSIVE MergeFrom(_, _, _)
MergeFrom(pairs, extra, i) ==
  IF i > Len(extra) THEN pairs
  ELSE MergeFrom(WithKey(pairs, extra[i][1], extra[i][2]), extra, i + 1)

(***************************************************************************)
(* The transport: what fetch may answer.                                   *)
(***************************************************************************)
\* Response.ok
ResponseOk(resp) == resp.status >= 200 /\ resp.status <= 299

\* JSON.parse, on the body texts of the model: the parsed value, or the
\* SyntaxError it throws
JSONParse(text) ==
  CASE text = "{\"data\":{\"id\":\"s1\"},\"success\":true}" ->
         [ok |-> TRUE,
          v |-> Obj(<< <<"data", Obj(<< <<"id", Str("s1")>> >>)>>,
                       <<"success", Bool(TRUE)>> >>)]
    [] text = "{\"data\":null,\"success\":true,\"message\":\"done\"}" ->
         [ok |-> TRUE,
          v |-> Obj(<< <<"data", Null>>, <<"success", Bool(TRUE)>>,
                       <<"message", Str("done")>> >>)]
    [] text = "{\"error\":{\"message\":\"not found\",\"code\":\"NOT_FOUND\"}}" ->
         [ok |-> TRUE,
          v |-> Obj(<< <<"error", Obj(<< <<"message", Str("not found")>>,
                                          <<"code", Str("NOT_FOUND")>> >>)>> >>)]
    [] text = "{\"error\":{\"message\":\"\",\"code\":\"E1\"},\"message\":\"bad request\"}" ->
         [ok |-> TRUE,
          v |-> Obj(<< <<"error", Obj(<< <<"message", Str("")>>,
                                          <<"code", Str("E1")>> >>)>>,
                       <<"message", Str("bad request")>> >>)]
    [] text = "{\"error\":\"boom\"}" ->
         [ok |-> TRUE, v |-> Obj(<< <<"error", Str("boom")>> >>)]
    [] text = "{\"error\":\"\"}" ->
         [ok |-> TRUE, v |-> Obj(<< <<"error", Str("")>> >>)]
    [] text = "{\"message\":\"bad request\"}" ->
         [ok |-> TRUE, v |-> Obj(<< <<"message", Str("bad request")>> >>)]
    [] text = "{}" -> [ok |-> TRUE, v |-> Obj(<<>>)]
    [] text = "null" -> [ok |-> TRUE, v |-> Null]
    [] text = "\"pong\"" -> [ok |-> TRUE, v |-> Str("pong")]
    [] text = "" ->
         [ok |-> FALSE,
          v |-> Err("SyntaxError", "Unexpected end of JSON input", Undef)]
    [] OTHER ->
         [ok |-> FALSE,
          v |-> Err("SyntaxError", "Unexpected token in JSON at position 0", Undef)]

(***************************************************************************)
(* The configuration holder.                                               *)
(***************************************************************************)
\* config.baseUrl ?? "https://cronho.st"
Constructor(cfg) ==
  LET b == Get(cfg, "baseUrl")
  IN  IF b.t \in {"undefined", "null"} THEN Str("https://cronho.st") ELSE b

(***************************************************************************)
(* The request pipeline.                                                   *)
(***************************************************************************)
\* `${this.baseUrl}/api/v1${endpoint}`
BuildUrl(base, endpoint) == Interpolate(base) \o "/api/v1" \o endpoint

\* an init that sets Content-Type only on a request with a body
FetchInitContentTypeWithBody(cfg, options) ==
  Obj(WithKey(SpreadPairs(options), "headers",
        Obj(MergeFrom((IF HasKey(options, "body")
                         THEN << <<"Content-Type", Str("application/json")>> >>
                         ELSE <<>>)
                        \o << <<"x-api-key", Get(cfg, "apiKey")>> >>,
                      SpreadPairs(Get(options, "headers")), 1))))

\* { ...options, headers: { "Content-Type", "x-api-key", ...options.headers } }
FetchInit(cfg, options) ==
  Obj(WithKey(SpreadPairs(options), "headers",
        Obj(MergeFrom(<< <<"Content-Type", Str("application/json")>>,
                         <<"x-api-key", Get(cfg, "apiKey")>> >>,
                      SpreadPairs(Get(options, "headers")), 1))))

\* a content-type test by equality, which misses a charset parameter
IsJsonExact(contentType) == contentType = Str("application/json")

\* contentType?.includes("application/json")
IsJson(contentType) ==
  IF contentType.t \in {"undefined", "null"} THEN FALSE
  ELSE Includes(contentType.v, "application/json")

\* a body read that never tries to parse a body not declared as JSON
ReadBodyNoFallback(isJson, text) ==
  LET parsed == JSONParse(text)
  IN  IF isJson
        THEN [ok |-> parsed.ok, data |-> parsed.v, responseText |-> ""]
        ELSE [ok |-> TRUE,
              data |-> Obj(<< <<"error", Obj(<< <<"message", Str(text)>> >>)>> >>),
              responseText |-> text]

\* the body as the pipeline reads it: data and responseText, or the error
\* the read throws
ReadBody(isJson, text) ==
  LET parsed == JSONParse(text)
  IN  IF isJson
        THEN IF parsed.ok
               THEN [ok |-> TRUE, data |-> parsed.v, responseText |-> ""]
               ELSE [ok |-> FALSE, data |-> parsed.v, responseText |-> ""]
        ELSE IF parsed.ok
               THEN [ok |-> TRUE, data |-> parsed.v, responseText |-> text]
               ELSE [ok |-> TRUE,
                     data |-> Obj(<< <<"error", Obj(<< <<"message", Str(text)>> >>)>> >>),
                     responseText |-> text]

\* catch (parseError): throw new Error(`Failed to parse response: ${err.message}`)
ParseFailure(parseError) ==
  Err("Error", "Failed to parse response: " \o parseError.v.message, Undef)

\* a ?? b
OrNullish(a, b) == IF a.t \in {"undefined", "null"} THEN b ELSE a

\* a message chain written with ?? in place of ||
ErrorMessageNullish(data, responseText, resp) ==
  OrNullish(OptGet(OptGet(data, "error"), "message"),
    OrNullish(OptGet(data, "message"),
      OrNullish(Str(responseText),
        Str("HTTP " \o NumToStr(resp.status) \o ": " \o resp.statusText))))

\* data?.error?.message || data?.message || responseText || `HTTP ...`
ErrorMessage(data, responseText, resp) ==
  OrElse(OptGet(OptGet(data, "error"), "message"),
    OrElse(OptGet(data, "message"),
      OrElse(Str(responseText),
        Str("HTTP " \o NumToStr(resp.status) \o ": " \o resp.statusText))))

\* the errorDetails object
ErrorDetails(data, responseText, resp, url) ==
  LET e == OptGet(data, "error")
  IN  Obj(MergeFrom(<< <<"status", Num(resp.status)>>,
                       <<"statusText", Str(resp.statusText)>>,
                       <<"url", Str(url)>>,
                       <<"message", ErrorMessage(data, responseText, resp)>> >>,
                    IF Truthy(e) THEN << <<"error", e>> >> ELSE <<>>, 1))

\* throw new Error(`API request failed: ${errorMessage}`, { cause: errorDetails })
ApiFailure(data, responseText, resp, url) ==
  Err("Error",
      "API request failed: " \o Interpolate(ErrorMessage(data, responseText, resp)),
      ErrorDetails(data, responseText, resp, url))

\* the outer catch: what the request routine throws for a caught error
CatchHandler(err) ==
  IF StartsWith(err.v.message, "API request failed:")
     \/ StartsWith(err.v.message, "Failed to parse response:")
    THEN err
    ELSE Err("Error", "Network error: " \o err.v.message, err)

\* the request routine once the body text is in: [kind, v], kind "return"
\* with the parsed body or "throw" with the error
RequestOnBody(resp, url, text) ==
  LET b == ReadBody(IsJson(resp.contentType), text)
  IN  IF ~b.ok THEN [kind |-> "throw", v |-> CatchHandler(ParseFailure(b.data))]
      ELSE IF ~ResponseOk(resp)
        THEN [kind |-> "throw",
              v |-> CatchHandler(ApiFailure(b.data, b.responseText, resp, url))]
      ELSE [kind |-> "return", v |-> b.data]

\* the request routine when reading the body rejects with e
RequestOnReadError(e) == [kind |-> "throw", v |-> CatchHandler(ParseFailure(e))]

\* the request routine when fetch rejects with e
RequestOnReject(e) == [kind |-> "throw", v |-> CatchHandler(e)]

(***************************************************************************)
(* The resource operations, up to their call of the request routine: each  *)
(* gives the endpoint and options it passes, or the error it throws        *)
(* before any request is made.                                             *)
(***************************************************************************)
ToRequest(endpoint, options) ==
  [t |-> "request", endpoint |-> endpoint, options |-> options, err |-> Undef]

ToThrow(err) ==
  [t |-> "throw", endpoint |-> "", options |-> Undef, err |-> err]

MethodOnly(method) == Obj(<< <<"method", Str(method)>> >>)

MethodAndBody(method, body) ==
  Obj(<< <<"method", Str(method)>>, <<"body", body>> >>)

GetSchedules == ToRequest("/schedules", Obj(<<>>))

GetSchedule(id) == ToRequest("/schedules/" \o id, Obj(<<>>))

\* a dispatch that treats a one-element array as a single payload
IsBulkOnlyWhenSeveral(data) == data.t = "array" /\ Len(data.v) > 1

\* Array.isArray(data)
IsBulk(data) == data.t = "array"

\* a size test that is off by one at the limit
TooManyOffByOne(data) == Len(data.v) >= BulkLimit

\* data.length > 1000
TooMany(data) == Len(data.v) > BulkLimit

\* a serialisation that writes "{}" for a payload without headers
WithSerializedHeadersDefaulted(schedule) ==
  Obj(WithKey(SpreadPairs(schedule), "headers",
        IF Truthy(Get(schedule, "headers"))
          THEN Str(JSONText(Get(schedule, "headers")))
          ELSE Str(JSONText(Obj(<<>>)))))

\* { ...schedule, headers: schedule.headers ? JSON.stringify(schedule.headers) : undefined }
WithSerializedHeaders(schedule) ==
  Obj(WithKey(SpreadPairs(schedule), "headers",
        IF Truthy(Get(schedule, "headers"))
          THEN Str(JSONText(Get(schedule, "headers")))
          ELSE Undef))

CreateSchedule(data) ==
  IF IsBulk(data)
    THEN IF Len(data.v) = 0
           THEN ToThrow(Err("Error",
                  "At least one schedule is required for bulk creation", Undef))
         ELSE IF TooMany(data)
           THEN ToThrow(Err("Error",
                  "Cannot create more than 1000 schedules at once", Undef))
         ELSE ToRequest("/schedules/bulk",
                MethodAndBody("POST",
                  JSONStringify(Arr([i \in 1..Len(data.v) |->
                                       WithSerializedHeaders(data.v[i])]))))
    ELSE ToRequest("/schedules",
           MethodAndBody("POST", JSONStringify(WithSerializedHeaders(data))))

UpdateSchedule(id, data) ==
  ToRequest("/schedules/" \o id,
    MethodAndBody("PUT", JSONStringify(WithSerializedHeaders(data))))

DeleteSchedule(id) == ToRequest("/schedules/" \o id, MethodOnly("DELETE"))

TriggerSchedule(id) ==
  ToRequest("/schedules/" \o id \o "/trigger", MethodOnly("POST"))

ToggleSchedule(id, enabled) ==
  ToRequest("/schedules/" \o id \o "/toggle",
    MethodAndBody("PATCH", JSONStringify(Obj(<< <<"enabled", enabled>> >>))))

\* if (params.k) searchParams.set(k, value)
SetIfTruthy(search, params, k, value) ==
  IF Truthy(Get(params, k)) THEN WithKey(search, k, value) ELSE search

\* URLSearchParams.prototype.toString
RECURSIVE SearchToString(_, _)
SearchToString(search, i) ==
  IF i > Len(search) THEN ""
  ELSE (IF i = 1 THEN "" ELSE "&")
         \o FormEncode(search[i][1]) \o "=" \o FormEncode(search[i][2])
         \o SearchToString(search, i + 1)

GetJobs(params) ==
  LET s1 == SetIfTruthy(<<>>, params, "scheduleId", Interpolate(Get(params, "scheduleId")))
      s2 == SetIfTruthy(s1, params, "status", Interpolate(Get(params, "status")))
      s3 == SetIfTruthy(s2, params, "page", Interpolate(Get(params, "page")))
      s4 == SetIfTruthy(s3, params, "limit", Interpolate(Get(params, "limit")))
      queryString == SearchToString(s4, 1)
  IN  ToRequest(IF queryString # "" THEN "/jobs?" \o queryString ELSE "/jobs",
                Obj(<<>>))

GetJob(id) == ToRequest("/jobs/" \o id, Obj(<<>>))

\* the synchronous part of a public operation
Prepare(call) ==
  CASE call.kind = "getSchedules" -> GetSchedules
    [] call.kind = "getSchedule" -> GetSchedule(call.id)
    [] call.kind = "createSchedule" -> CreateSchedule(call.arg)
    [] call.kind = "updateSchedule" -> UpdateSchedule(call.id, call.arg)
    [] call.kind = "deleteSchedule" -> DeleteSchedule(call.id)
    [] call.kind = "triggerSchedule" -> TriggerSchedule(call.id)
    [] call.kind = "toggleSchedule" -> ToggleSchedule(call.id, call.arg)
    [] call.kind = "getJobs" -> GetJobs(call.arg)
    [] OTHER -> GetJob(call.id)

\* what a public operation does with the outcome of the request routine:
\* deleteSchedule returns nothing, the others return response.data
Unwrap(kind, result) ==
  IF result.kind = "throw" THEN result
  ELSE IF kind = "deleteSchedule" THEN [kind |-> "return", v |-> Undef]
  ELSE IF result.v.t \in {"null", "undefined"}
    THEN [kind |-> "throw",
          v |-> Err("TypeError",
                    "Cannot read properties of " \o Interpolate(result.v)
                      \o " (reading 'data')", Undef)]
  ELSE [kind |-> "return", v |-> Get(result.v, "data")]

(***************************************************************************)
(* The inputs the model draws from.                                        *)
(***************************************************************************)
Configs ==
  { Obj(<< <<"apiKey", Str("ch_key_one")>> >>),
    Obj(<< <<"apiKey", Str("ch_key_two")>>,
           <<"baseUrl", Str("http://localhost:3000")>> >>) }

Ids == {"s1", "s2"}

HeaderMaps ==
  { Obj(<<>>),
    Obj(<< <<"X-A", Str("1")>> >>),
    Obj(<< <<"Authorization", Str("Bearer t")>>, <<"X-Q", Str("say \"hi\"")>> >>) }

BasePairs ==
  << <<"name", Str("health")>>, <<"cronExpression", Str("0 9 * * *")>>,
     <<"timezone", Str("UTC")>>, <<"endpoint", Str("https://api.example.com/health")>>,
     <<"httpMethod", Str("GET")>> >>

PlainPayload == Obj(BasePairs)

HeaderPayload(h) == Obj(Append(BasePairs, <<"headers", h>>))

CreatePayloads ==
  {PlainPayload}
    \cup {HeaderPayload(h) : h \in HeaderMaps}
    \cup {Obj(<< <<"headers", Obj(<< <<"X-A", Str("1")>> >>)>> >> \o BasePairs),
          Obj(BasePairs \o << <<"headers", Undef>>, <<"maxRetries", Num(3)>> >>)}

UpdatePayloads ==
  { Obj(<<>>),
    Obj(<< <<"name", Str("renamed")>> >>),
    Obj(<< <<"timeoutSeconds", Num(30)>>, <<"headers", Obj(<<>>)>> >>),
    Obj(<< <<"headers", Obj(<< <<"X-A", Str("1")>> >>)>>, <<"body", Str("{}")>> >>) }

ArrayLens == {0, 1, 2, 5, BulkLimit, BulkLimit + 1}

BulkArrays ==
  {Arr([i \in 1..n |-> PlainPayload]) : n \in ArrayLens}
    \cup {Arr([i \in 1..n |->
                 IF i % 2 = 1 THEN HeaderPayload(Obj(<< <<"X-A", Str("1")>> >>))
                 ELSE IF i % 4 = 2 THEN HeaderPayload(Obj(<<>>))
                 ELSE PlainPayload]) : n \in ArrayLens}

\* an object with the properties of pairs whose value is not "absent"
Absent == [t |-> "absent", v |-> 0]

Supplied(pairs) == Obj(SelectSeq(pairs, LAMBDA p : p[2] # Absent))

JobsParams ==
  { Supplied(<< <<"scheduleId", a>>, <<"status", b>>, <<"page", c>>, <<"limit", d>> >>) :
      a \in {Absent, Str(""), Str("s 1")},
      b \in {Absent, Str("FAILED")},
      c \in {Absent, Num(0), Num(1), Num(12)},
      d \in {Absent, Num(0), Num(25)} }

Call(kind, id, arg) == [kind |-> kind, id |-> id, arg |-> arg]

Calls ==
  {Call("getSchedules", "", Undef)}
    \cup {Call(k, id, Undef) :
            k \in {"getSchedule", "deleteSchedule", "triggerSchedule", "getJob"},
            id \in Ids}
    \cup {Call("createSchedule", "", d) : d \in CreatePayloads \cup BulkArrays}
    \cup {Call("updateSchedule", id, d) : id \in Ids, d \in UpdatePayloads}
    \cup {Call("toggleSchedule", id, Bool(b)) : id \in Ids, b \in BOOLEAN}
    \cup {Call("getJobs", "", q) : q \in JobsParams}

ContentTypes ==
  {Null, Str("application/json"), Str("application/json; charset=utf-8"),
   Str("text/plain")}

Statuses ==
  { <<200, "OK">>, <<201, "Created">>, <<404, "Not Found">>,
    <<500, "Internal Server Error">>, <<503, "">> }

Responses ==
  {[status |-> st[1], statusText |-> st[2], contentType |-> ct] :
     st \in Statuses, ct \in ContentTypes}

BodyTexts ==
  { "{\"data\":{\"id\":\"s1\"},\"success\":true}",
    "{\"data\":null,\"success\":true,\"message\":\"done\"}",
    "{\"error\":{\"message\":\"not found\",\"code\":\"NOT_FOUND\"}}",
    "{\"error\":{\"message\":\"\",\"code\":\"E1\"},\"message\":\"bad request\"}",
    "{\"error\":\"boom\"}",
    "{\"error\":\"\"}",
    "{\"message\":\"bad request\"}",
    "{}",
    "null",
    "\"pong\"",
    "",
    "<html>Bad Gateway</html>" }

\* what fetch may reject with
TransportErrors ==
  { Err("TypeError", "fetch failed", Undef),
    Err("Error", "API request failed: upstream unreachable", Undef),
    Err("Error", "Failed to parse response: proxy reset", Undef) }

\* what reading the body may reject with
StreamErrors == { Err("TypeError", "terminated", Undef) }

\* the smaller inputs of the concurrent specification
ConcCalls ==
  { Call("getSchedules", "", Undef),
    Call("createSchedule", "", HeaderPayload(Obj(<< <<"X-A", Str("1")>> >>))),
    Call("getJobs", "", Obj(<< <<"status", Str("FAILED")>>, <<"page", Num(0)>> >>)) }

ConcResponses ==
  {[status |-> st[1], statusText |-> st[2], contentType |-> ct] :
     st \in { <<200, "OK">>, <<404, "Not Found">> },
     ct \in {Str("application/json"), Str("text/plain")}}

ConcBodyTexts ==
  { "{\"data\":{\"id\":\"s1\"},\"success\":true}",
    "<html>Bad Gateway</html>" }

ConcTransportErrors == { Err("TypeError", "fetch failed", Undef) }

(***************************************************************************)
(* The state: the client's fields and one record per invocation.           *)
(***************************************************************************)
Pending == [kind |-> "pending", v |-> Undef]

NoCall == Call("none", "", Undef)

NoRequest == [url |-> "", init |-> Undef]

NoResponse == [status |-> 0, statusText |-> "", contentType |-> Null]

IdleOp ==
  [pc |-> "idle", call |-> NoCall, req |-> NoRequest, calls |-> 0,
   resp |-> NoResponse, body |-> Undef, terr |-> Undef,
   res |-> Pending, out |-> Pending]

Init ==
  /\ config \in Configs
  /\ baseUrl = Constructor(config)
  /\ ops = [i \in 1..MaxOps |-> IdleOp]

\* await fetch(url, init): the one network call of the request routine
Fetch(op, url, init) ==
  [op EXCEPT !.pc = "fetching", !.req = [url |-> url, init |-> init],
             !.calls = @ + 1]

\* the invocation ends: the request routine's outcome, and the operation's
Finish(op, result) ==
  [op EXCEPT !.pc = "done", !.res = result,
             !.out = Unwrap(op.call.kind, result)]

\* a public operation is called with `call`
Start(op, call, cfg, base) ==
  LET p == Prepare(call)
      o == [op EXCEPT !.call = call]
  IN  IF p.t = "throw"
        THEN [o EXCEPT !.pc = "done", !.out = [kind |-> "throw", v |-> p.err]]
        ELSE Fetch(o, BuildUrl(base, p.endpoint), FetchInit(cfg, p.options))

\* a rejection handler that fetches once more before giving up
OnRejectRetry(op, e) ==
  IF op.calls < 2
    THEN Fetch(op, op.req.url, op.req.init)
    ELSE Finish([op EXCEPT !.terr = e], RequestOnReject(e))

\* fetch rejected with e
OnReject(op, e) == Finish([op EXCEPT !.terr = e], RequestOnReject(e))

\* fetch resolved with resp: the routine goes on to read the body
OnResponse(op, resp) == [op EXCEPT !.pc = "reading", !.resp = resp]

\* the body arrived as text
OnBody(op, text) ==
  Finish([op EXCEPT !.body = Str(text)], RequestOnBody(op.resp, op.req.url, text))

\* reading the body rejected with e
OnReadError(op, e) == Finish([op EXCEPT !.terr = e], RequestOnReadError(e))

Invoke(i, call) ==
  /\ ops[i].pc = "idle"
  /\ ops' = [ops EXCEPT ![i] = Start(ops[i], call, config, baseUrl)]
  /\ UNCHANGED <<config, baseUrl>>

FetchRejects(i, e) ==
  /\ ops[i].pc = "fetching"
  /\ ops' = [ops EXCEPT ![i] = OnReject(ops[i], e)]
  /\ UNCHANGED <<config, baseUrl>>

FetchResolves(i, resp) ==
  /\ ops[i].pc = "fetching"
  /\ ops' = [ops EXCEPT ![i] = OnResponse(ops[i], resp)]
  /\ UNCHANGED <<config, baseUrl>>

BodyArrives(i, text) ==
  /\ ops[i].pc = "reading"
  /\ ops' = [ops EXCEPT ![i] = OnBody(ops[i], text)]
  /\ UNCHANGED <<config, baseUrl>>

BodyFails(i, e) ==
  /\ ops[i].pc = "reading"
  /\ ops' = [ops EXCEPT ![i] = OnReadError(ops[i], e)]
  /\ UNCHANGED <<config, baseUrl>>

\* one invocation at a time, over all the inputs
Next ==
  \/ \E c \in Calls : Invoke(1, c)
  \/ \E e \in TransportErrors : FetchRejects(1, e)
  \/ \E r \in Responses : FetchResolves(1, r)
  \/ \E t \in BodyTexts : BodyArrives(1, t)
  \/ \E e \in StreamErrors : BodyFails(1, e)

Spec == Init /\ [][Next]_vars

\* MaxOps invocations, interleaved at their suspension points
NextConc ==
  \E i \in 1..MaxOps :
    \/ \E c \in ConcCalls : Invoke(i, c)
    \/ \E e \in ConcTransportErrors : FetchRejects(i, e)
    \/ \E r \in ConcResponses : FetchResolves(i, r)
    \/ \E t \in ConcBodyTexts : BodyArrives(i, t)
    \/ \E e \in StreamErrors : BodyFails(i, e)

SpecConc == Init /\ [][NextConc]_vars

(***************************************************************************)
(* Properties.                                                             *)
(***************************************************************************)
\* the invocation in slot i has made its request
Issued(i) == ops[i].pc \in {"fetching", "reading", "done"} /\ ops[i].calls > 0

\* the method and body of the request in slot i
SentMethod(i) == Get(ops[i].req.init, "method")

SentBody(i) == Get(ops[i].req.init, "body")

\* C1: createSchedule picks its endpoint by the shape of its argument alone:
\* a single object is POSTed to /schedules, an array that passes validation
\* (1 to 1000 elements) is POSTed to /schedules/bulk, and neither ever
\* reaches the other endpoint.
C1_DispatchByShape ==
  \A i \in DOMAIN ops :
    LET o == ops[i]
    IN  (o.call.kind = "createSchedule" /\ o.pc # "idle") =>
          /\ (o.call.arg.t = "array" /\ Len(o.call.arg.v) \in 1..1000) => Issued(i)
          /\ o.call.arg.t # "array" => Issued(i)
          /\ Issued(i) =>
               /\ SentMethod(i) = Str("POST")
               /\ o.req.url =
                    baseUrl.v \o (IF o.call.arg.t = "array"
                                    THEN "/api/v1/schedules/bulk"
                                    ELSE "/api/v1/schedules")

\* C1 witness: a one-element array has been sent to the bulk endpoint
C1_Witness ==
  \E i \in DOMAIN ops :
    /\ ops[i].call.kind = "createSchedule"
    /\ ops[i].call.arg.t = "array"
    /\ Len(ops[i].call.arg.v) = 1
    /\ Issued(i)
    /\ ops[i].req.url = baseUrl.v \o "/api/v1/schedules/bulk"

\* C2: createSchedule with an empty array, or with more than 1000 elements,
\* fails with the local validation error and makes no network call; with 1
\* to 1000 elements it is not rejected and makes its network call.
C2_LocalValidation ==
  \A i \in DOMAIN ops :
    LET o == ops[i]
        n == Len(o.call.arg.v)
    IN  (o.call.kind = "createSchedule" /\ o.call.arg.t = "array") =>
          IF n = 0 \/ n > 1000
            THEN /\ o.pc = "done"
                 /\ o.calls = 0
                 /\ o.req = NoRequest
                 /\ o.out.kind = "throw"
                 /\ o.out.v.v.message =
                      (IF n = 0
                         THEN "At least one schedule is required for bulk creation"
                         ELSE "Cannot create more than 1000 schedules at once")
            ELSE /\ o.calls = 1
                 /\ o.req # NoRequest
                 /\ ~(o.out.kind = "throw"
                      /\ o.out.v.v.message \in
                           {"At least one schedule is required for bulk creation",
                            "Cannot create more than 1000 schedules at once"})

\* C2 witness: an array of 1001 elements has been rejected without a request
C2_Witness ==
  \E i \in DOMAIN ops :
    /\ ops[i].call.kind = "createSchedule"
    /\ ops[i].call.arg.t = "array"
    /\ Len(ops[i].call.arg.v) = 1001
    /\ ops[i].pc = "done"
    /\ ops[i].calls = 0
    /\ ops[i].out.kind = "throw"

\* the query string C3 expects: every supplied parameter, in the order
\* scheduleId, status, page, limit, with its value
ClaimedQuery(params) ==
  IF Len(params.v) = 0 THEN ""
  ELSE "?" \o SearchToString(
                [j \in 1..Len(params.v) |->
                   <<params.v[j][1], Interpolate(params.v[j][2])>>], 1)

\* C3: for every getJobs call the requested path carries exactly the
\* supplied parameters, each with its value (numbers in base 10), and none of
\* the omitted ones; page = 0, limit = 0 and an empty scheduleId included.
C3_QueryCarriesEverySuppliedKey ==
  \A i \in DOMAIN ops :
    (ops[i].call.kind = "getJobs" /\ Issued(i)) =>
      ops[i].req.url = baseUrl.v \o "/api/v1/jobs" \o ClaimedQuery(ops[i].call.arg)

\* the body of slot i was delivered as text
BodyDelivered(i) == ops[i].pc = "done" /\ ops[i].body.t = "string"

\* the response of slot i declares a JSON content type
DeclaresJson(i) ==
  ops[i].resp.contentType \in
    {Str("application/json"), Str("application/json; charset=utf-8")}

SuccessStatus(i) == ops[i].resp.status \in 200..299

\* the operation in slot i ended by throwing an error whose message starts with p
ThrewWithPrefix(i, p) ==
  /\ ops[i].out.kind = "throw"
  /\ StartsWith(ops[i].out.v.v.message, p)

\* "HTTP <code>: <text>" for the response of slot i
SynthesizedMessage(i) ==
  "HTTP " \o NumToStr(ops[i].resp.status) \o ": " \o ops[i].resp.statusText

\* C4 as stated: every response whose body does not parse as JSON, whatever
\* its declared content type and status, ends the operation with a parse
\* failure ("Failed to parse response:").
C4_UnparseableAlwaysParseFailure ==
  \A i \in DOMAIN ops :
    (BodyDelivered(i) /\ ~JSONParse(ops[i].body.v).ok) =>
      ThrewWithPrefix(i, "Failed to parse response:")

\* C4 amended: a body that does not parse as JSON ends the operation with a
\* parse failure, whatever the status, exactly when the response declares a
\* JSON content type; under any other declared type (or none) the text is
\* taken as an opaque error message: an API error carrying the text (or the
\* synthesized message when it is empty) on a non-success status, a normal
\* return of { error: { message: text } } from the request routine otherwise.
C4_ParseFailureWhenJsonDeclared ==
  \A i \in DOMAIN ops :
    LET o == ops[i]
    IN  (BodyDelivered(i) /\ ~JSONParse(o.body.v).ok) =>
          IF DeclaresJson(i)
            THEN /\ ThrewWithPrefix(i, "Failed to parse response:")
                 /\ o.out.v.v.cause = Undef
            ELSE IF SuccessStatus(i)
              THEN /\ o.res.kind = "return"
                   /\ o.res.v = Obj(<< <<"error", Obj(<< <<"message", o.body>> >>)>> >>)
                   /\ o.out = [kind |-> "return", v |-> Undef]
              ELSE /\ o.out.kind = "throw"
                   /\ o.out.v.v.message =
                        "API request failed: "
                          \o (IF o.body.v # "" THEN o.body.v ELSE SynthesizedMessage(i))

\* C4 witness: an unparseable body under "application/json; charset=utf-8"
\* and status 200 has ended in a parse failure
C4_Witness ==
  \E i \in DOMAIN ops :
    /\ BodyDelivered(i)
    /\ ops[i].body.v = "<html>Bad Gateway</html>"
    /\ ops[i].resp.contentType = Str("application/json; charset=utf-8")
    /\ ops[i].resp.status = 200
    /\ ThrewWithPrefix(i, "Failed to parse response:")

\* the first of a, b, c, d that is a non-empty string
FirstAvailable(a, b, c, d) ==
  IF Truthy(a) THEN a ELSE IF Truthy(b) THEN b ELSE IF Truthy(c) THEN c ELSE d

\* the details of an API error thrown in slot i carry the status, the status
\* text, the request URL and the message m
DetailsCarry(i, m) ==
  LET d == ops[i].out.v.v.cause
  IN  /\ d.t = "object"
      /\ Get(d, "status") = Num(ops[i].resp.status)
      /\ Get(d, "statusText") = Str(ops[i].resp.statusText)
      /\ Get(d, "url") = Str(ops[i].req.url)
      /\ Get(d, "message") = m

\* C5 as stated: every non-success response fails with an API error whose
\* details carry status, status text and URL, whose message is the first
\* available of body.error.message, body.message, the raw response text
\* (whatever the declared content type) and "HTTP <code>: <text>", and which
\* carries the body's error object exactly when the server sent one.
C5_ApiErrorAsStated ==
  \A i \in DOMAIN ops :
    (BodyDelivered(i) /\ ~SuccessStatus(i)) =>
      LET o == ops[i]
          parsed == JSONParse(o.body.v)
          body == IF parsed.ok THEN parsed.v ELSE Undef
          m == FirstAvailable(OptGet(OptGet(body, "error"), "message"),
                              OptGet(body, "message"),
                              o.body,
                              Str(SynthesizedMessage(i)))
      IN  /\ o.out.kind = "throw"
          /\ o.out.v.v.message = "API request failed: " \o m.v
          /\ DetailsCarry(i, m)
          /\ HasKey(o.out.v.v.cause, "error") <=> HasKey(body, "error")
          /\ HasKey(body, "error") => Get(o.out.v.v.cause, "error") = Get(body, "error")

\* C5 amended: a non-success response whose body is read fails with an API
\* error unless it declares a JSON content type and its body does not parse
\* (then it fails with the parse failure).  The body is the parsed JSON, or
\* { error: { message: text } } for a text that does not parse; the message
\* is the first non-empty of body.error.message, body.message, the raw text
\* (read only when no JSON content type is declared) and "HTTP <code>:
\* <text>"; the details carry status, status text, URL and that message, and
\* carry body.error exactly when it is truthy.
C5_ApiErrorAmended ==
  \A i \in DOMAIN ops :
    (BodyDelivered(i) /\ ~SuccessStatus(i)) =>
      LET o == ops[i]
          parsed == JSONParse(o.body.v)
          body == IF parsed.ok THEN parsed.v
                  ELSE Obj(<< <<"error", Obj(<< <<"message", o.body>> >>)>> >>)
          raw == IF DeclaresJson(i) THEN Str("") ELSE o.body
          m == FirstAvailable(OptGet(OptGet(body, "error"), "message"),
                              OptGet(body, "message"),
                              raw,
                              Str(SynthesizedMessage(i)))
      IN  IF DeclaresJson(i) /\ ~parsed.ok
            THEN ThrewWithPrefix(i, "Failed to parse response:")
            ELSE /\ o.out.kind = "throw"
                 /\ o.out.v.v.message = "API request failed: " \o m.v
                 /\ DetailsCarry(i, m)
                 /\ HasKey(o.out.v.v.cause, "error") <=> Truthy(OptGet(body, "error"))
                 /\ Truthy(OptGet(body, "error")) =>
                      Get(o.out.v.v.cause, "error") = OptGet(body, "error")

\* C5 witness: a 404 with the structured error body has failed with the
\* message "not found" and the error code attached
C5_Witness ==
  \E i \in DOMAIN ops :
    /\ BodyDelivered(i)
    /\ ops[i].resp.status = 404
    /\ ops[i].body.v = "{\"error\":{\"message\":\"not found\",\"code\":\"NOT_FOUND\"}}"
    /\ ops[i].out.kind = "throw"
    /\ ops[i].out.v.v.message = "API request failed: not found"
    /\ Get(Get(ops[i].out.v.v.cause, "error"), "code") = Str("NOT_FOUND")

\* fetch rejected in slot i: no response was received
FetchRejected(i) ==
  ops[i].pc = "done" /\ ops[i].terr.t = "error" /\ ops[i].resp = NoResponse

\* C6: every rejection of the transport call ends the operation with a
\* network error that wraps the transport failure as its cause, whatever the
\* failure's message; and a network error arises only when no response was
\* received.
C6_RejectionIsNetworkError ==
  \A i \in DOMAIN ops :
    /\ FetchRejected(i) =>
         ops[i].out =
           [kind |-> "throw",
            v |-> Err("Error", "Network error: " \o ops[i].terr.v.message, ops[i].terr)]
    /\ ThrewWithPrefix(i, "Network error:") => FetchRejected(i)

\* the JSON text of the header mappings the model uses
ExpectedHeaderText(h) ==
  CASE h = Obj(<<>>) -> "{}"
    [] h = Obj(<< <<"X-A", Str("1")>> >>) -> "{\"X-A\":\"1\"}"
    [] OTHER -> "{\"Authorization\":\"Bearer t\",\"X-Q\":\"say \\\"hi\\\"\"}"

\* doc is what the claim wants transmitted for payload: headers as the JSON
\* text of the mapping when the payload has one and no headers key when it
\* has none, every other field as it is, and nothing else
TransmittedAsClaimed(payload, doc) ==
  /\ doc.t = "object"
  /\ IF Get(payload, "headers").t = "object"
       THEN /\ HasKey(doc, "headers")
            /\ Get(doc, "headers") = Str(ExpectedHeaderText(Get(payload, "headers")))
       ELSE ~HasKey(doc, "headers")
  /\ \A j \in 1..Len(payload.v) :
       (payload.v[j][1] # "headers" /\ payload.v[j][2] # Undef) =>
         /\ HasKey(doc, payload.v[j][1])
         /\ Get(doc, payload.v[j][1]) = payload.v[j][2]
  /\ \A j \in 1..Len(doc.v) :
       doc.v[j][1] = "headers" \/ HasKey(payload, doc.v[j][1])

\* C7: in every create (single, and each element of a bulk array) and update
\* request, a payload's header mapping is transmitted as the string that is
\* its JSON serialization (the empty mapping as "{}"), a payload without
\* headers is transmitted without a headers key, and the other fields are
\* transmitted unchanged.
C7_HeadersSerialized ==
  \A i \in DOMAIN ops :
    LET o == ops[i]
    IN  (o.call.kind \in {"createSchedule", "updateSchedule"} /\ Issued(i)) =>
          /\ SentBody(i).t = "json"
          /\ IF o.call.arg.t = "array"
               THEN /\ SentBody(i).v.t = "array"
                    /\ Len(SentBody(i).v.v) = Len(o.call.arg.v)
                    /\ \A j \in 1..Len(o.call.arg.v) :
                         TransmittedAsClaimed(o.call.arg.v[j], SentBody(i).v.v[j])
               ELSE TransmittedAsClaimed(o.call.arg, SentBody(i).v)

\* C7 witness: a bulk request is out whose first element carries a mapping,
\* whose second carries the empty mapping and whose fourth carries none
C7_Witness ==
  \E i \in DOMAIN ops :
    /\ ops[i].call.kind = "createSchedule"
    /\ ops[i].call.arg.t = "array"
    /\ Len(ops[i].call.arg.v) >= 4
    /\ Issued(i)
    /\ Get(SentBody(i).v.v[1], "headers") = Str("{\"X-A\":\"1\"}")
    /\ Get(SentBody(i).v.v[2], "headers") = Str("{}")
    /\ ~HasKey(SentBody(i).v.v[4], "headers")
    /\ HasKey(SentBody(i).v.v[4], "name")

\* createSchedule was called with an array its local validation rejects
RejectedLocally(i) ==
  /\ ops[i].call.kind = "createSchedule"
  /\ ops[i].call.arg.t = "array"
  /\ (Len(ops[i].call.arg.v) = 0 \/ Len(ops[i].call.arg.v) > 1000)

\* the request of slot i failed: the transport rejected, the body could not
\* be read or parsed, or the status was not a success
RequestFailed(i) ==
  /\ ops[i].pc = "done"
  /\ \/ ops[i].terr.t = "error"
     \/ BodyDelivered(i) /\ ~SuccessStatus(i)
     \/ BodyDelivered(i) /\ DeclaresJson(i) /\ ~JSONParse(ops[i].body.v).ok

\* C8: every invocation makes at most one network call: none when local
\* validation rejects it, exactly one otherwise; a failed request is not
\* retried, its error reaches the caller, and a finished invocation does
\* nothing more.
C8_OneCallNoRetry ==
  /\ [](\A i \in DOMAIN ops :
          /\ ops[i].calls <= 1
          /\ ops[i].pc # "idle" => ops[i].calls = (IF RejectedLocally(i) THEN 0 ELSE 1)
          /\ RequestFailed(i) =>
               /\ ops[i].calls = 1
               /\ ops[i].out.kind = "throw"
               /\ ops[i].out = ops[i].res)
  /\ [][\A i \in DOMAIN ops : ops[i].pc = "done" => ops'[i] = ops[i]]_vars

\* C8 witness: an invocation has ended in a network error after one call
C8_Witness ==
  \E i \in DOMAIN ops :
    /\ ops[i].pc = "done"
    /\ ops[i].terr = Err("TypeError", "fetch failed", Undef)
    /\ ops[i].calls = 1
    /\ ThrewWithPrefix(i, "Network error:")

\* C9 as stated: every success response whose body is valid JSON text is
\* parsed whatever its declared content type, the request routine returns
\* the parsed body as it is, and every operation but deleteSchedule returns
\* the data field of it.
C9_SuccessReturnsData ==
  \A i \in DOMAIN ops :
    LET o == ops[i]
        parsed == JSONParse(o.body.v)
    IN  (BodyDelivered(i) /\ SuccessStatus(i) /\ parsed.ok) =>
          /\ o.res = [kind |-> "return", v |-> parsed.v]
          /\ o.call.kind # "deleteSchedule" =>
               o.out = [kind |-> "return", v |-> Get(parsed.v, "data")]

\* C9 amended: as stated when the parsed body is not null; for the body
\* null the request routine still returns it as it is, and every operation
\* but deleteSchedule then throws a TypeError on reading its data field,
\* under every declared content type alike.
C9_SuccessReturnsDataUnlessNull ==
  \A i \in DOMAIN ops :
    LET o == ops[i]
        parsed == JSONParse(o.body.v)
    IN  (BodyDelivered(i) /\ SuccessStatus(i) /\ parsed.ok) =>
          /\ o.res = [kind |-> "return", v |-> parsed.v]
          /\ o.call.kind = "deleteSchedule" => o.out = [kind |-> "return", v |-> Undef]
          /\ (o.call.kind # "deleteSchedule" /\ parsed.v # Null) =>
               o.out = [kind |-> "return", v |-> Get(parsed.v, "data")]
          /\ (o.call.kind # "deleteSchedule" /\ parsed.v = Null) =>
               /\ o.out.kind = "throw"
               /\ o.out.v.v.name = "TypeError"

\* C9 witness: a text/plain success response with the envelope as its body
\* has returned the envelope's data
C9_Witness ==
  \E i \in DOMAIN ops :
    /\ BodyDelivered(i)
    /\ ops[i].resp.contentType = Str("text/plain")
    /\ ops[i].resp.status = 200
    /\ ops[i].call.kind = "getSchedule"
    /\ ops[i].out = [kind |-> "return", v |-> Obj(<< <<"id", Str("s1")>> >>)]

\* the path each call of the concurrent specification must request
ExpectedConcPath(call) ==
  CASE call.kind = "getSchedules" -> "/schedules"
    [] call.kind = "createSchedule" -> "/schedules"
    [] OTHER -> "/jobs?status=FAILED"

\* the base URL the configuration asks for
ConfiguredBase ==
  IF HasKey(config, "baseUrl") THEN Get(config, "baseUrl").v ELSE "https://cronho.st"

\* C10: with any number of operations in flight and any interleaving of
\* their suspension points, the configuration is never modified, every
\* request goes to base URL + "/api/v1" + path with Content-Type
\* application/json and the configured API key, and an operation's request
\* and outcome are determined by its own arguments and its own response.
C10_ConcurrentCallsIndependent ==
  /\ [](/\ baseUrl = Str(ConfiguredBase)
        /\ \A i \in DOMAIN ops :
             Issued(i) =>
               /\ ops[i].req.url =
                    ConfiguredBase \o "/api/v1" \o ExpectedConcPath(ops[i].call)
               /\ Get(Get(ops[i].req.init, "headers"), "Content-Type")
                    = Str("application/json")
               /\ Get(Get(ops[i].req.init, "headers"), "x-api-key")
                    = Get(config, "apiKey")
               /\ Len(Get(ops[i].req.init, "headers").v) = 2
        /\ \A i, j \in DOMAIN ops :
             ops[i].call = ops[j].call =>
               /\ (Issued(i) /\ Issued(j)) => ops[i].req = ops[j].req
               /\ (/\ ops[i].pc = "done" /\ ops[j].pc = "done"
                   /\ ops[i].resp = ops[j].resp
                   /\ ops[i].body = ops[j].body
                   /\ ops[i].terr = ops[j].terr) => ops[i].out = ops[j].out)
  /\ [][config' = config /\ baseUrl' = baseUrl]_vars

\* C10 witness: one operation has finished with an API error while another,
\* started before it finished, is still reading its own response
C10_Witness ==
  \E i, j \in DOMAIN ops :
    /\ i # j
    /\ ops[i].pc = "done"
    /\ ThrewWithPrefix(i, "API request failed:")
    /\ ops[j].pc = "reading"
    /\ ops[j].call # ops[i].call
    /\ ops[j].resp.status = 200

====
